---- MODULE Spec2Model ----
(***************************************************************************)
(* Model of service-worker.js: the install / activate lifecycle, the fetch *)
(* router and the two serving strategies cacheFirst and networkFirst,      *)
(* running against the host's CacheStorage (specification Spec), and the   *)
(* push and notificationclick listeners of the activated worker            *)
(* (specification NotifySpec; they use no cache, so the storage is held    *)
(* fixed there, as the notifications are in Spec).                         *)
(*                                                                         *)
(* Strings that the code inspects with startsWith are sequences of their   *)
(* pieces with the separators kept ("/api/habits" is                       *)
(* <<"/","api","/","habits">>), so startsWith is "is a prefix of".         *)
(* Every await of the code is a separate step, so that other handlers can  *)
(* run in between; the code between two awaits is one step.                *)
(*                                                                         *)
(* The host is modelled as the Cache and ServiceWorker interfaces behave:  *)
(* caches.match searches every cache of the origin in creation order and   *)
(* matches GET requests only; cache.put rejects a request that is not GET; *)
(* cache.addAll rejects unless every response is ok, and stores all or     *)
(* nothing; caches.open may reject; a cache.put that is not awaited        *)
(* completes, or is rejected, at any later time; a deleted cache stays     *)
(* usable by the operations that hold it but is gone from the storage; the *)
(* previous worker is terminated when the new one is activated, and fetch  *)
(* events reach the new worker once its activate event has completed.      *)
(* A window client reports the absolute URL of its page in client.url;     *)
(* clients.openWindow resolves its argument against the worker's location; *)
(* showNotification rejects when the permission is not granted.            *)
(***************************************************************************)
EXTENDS Integers, Sequences, FiniteSets, Bags, TLC

\* ------------------------------------------------------------------ bounds
\* Total number of events (fetch, or push and notificationclick)
\* dispatched in one run.
MaxEvents == 2

\* ------------------------------------------------------------- constants
\* line 2: const CACHE_VERSION = 'v1'
CACHE_VERSION == <<"v1">>
\* the version of the worker that controls the pages before this one
OLD_VERSION == <<"v0">>
\* the literal 'habit-tracker-' of lines 3 and 35
TrackerPrefix == <<"habit", "-", "tracker", "-">>
\* line 3: `habit-tracker-${CACHE_VERSION}`, for the worker of version v
CacheNameOf(v) == TrackerPrefix \o v
CACHE_NAME == CacheNameOf(CACHE_VERSION)
OLD_CACHE_NAME == CacheNameOf(OLD_VERSION)
\* a cache of the same origin whose name does not carry the prefix
OTHER_CACHE_NAME == <<"habit", "-", "tracker">>
\* line 51: '/api/'
ApiPrefix == <<"/", "api", "/">>

Url(o, p) == [origin |-> o, pathname |-> p]
ShellUrl == Url("self", <<"/", "index.html">>)
ManifestJsonUrl == Url("self", <<"/", "manifest.json">>)
LogoUrl == Url("self", <<"/", "logo.png">>)
ApiUrl == Url("self", <<"/", "api", "/", "habits">>)
\* a path that only looks like the API prefix
ApiNoSlashUrl == Url("self", <<"/", "api">>)
\* lines 6-13, each string resolved against the worker's scope
STATIC_CACHE_URLS ==
  << ShellUrl,
     ManifestJsonUrl,
     Url("cdn.tailwindcss.com", <<"/">>),
     Url("cdn.jsdelivr.net", <<"/", "npm", "/", "font-awesome@4.7.0", "/", "css", "/", "font-awesome.min.css">>),
     Url("cdn.jsdelivr.net", <<"/", "npm", "/", "chart.js@4.4.8", "/", "dist", "/", "chart.umd.min.js">>) >>

\* ------------------------------------------------------------- responses
Resp(k, s, b, c) == [kind |-> k, status |-> s, body |-> b, ctype |-> c]
\* the value of a promise that resolved to undefined / a variable not yet set
Undefined == Resp("undefined", 0, "", "")
\* a fetch() that rejected
NetError == Resp("error", 0, "", "")
Net(s, b) == Resp("network", s, b, "server")
\* what the network can answer to a fetch of a handler
NetResponses == { Net(200, "b1"), Net(200, "b2"), Net(404, "missing") }
\* lines 90-93
NetworkError408 == Resp("synthetic", 408, "Network error happened", "text/plain")
\* lines 121-124 (the body is a Chinese sentence in the source: "you are
\* offline, the latest data cannot be fetched")
OfflineResponse == Resp("synthetic", 200, "offline, no fresh data", "text/plain")

\* ------------------------------------------------------------- requests
Req(u, m, a) == [url |-> u, method |-> m, accept |-> a]
\* accept: "html" includes text/html, "other" does not, "none" is no header
Requests ==
  { Req(ShellUrl, "GET", "html"),
    Req(LogoUrl, "GET", "html"),
    Req(LogoUrl, "GET", "none"),
    Req(LogoUrl, "POST", "other"),
    Req(ApiUrl, "GET", "other"),
    Req(ApiUrl, "POST", "other"),
    Req(ApiNoSlashUrl, "GET", "other") }

\* ------------------------------------------------------- pure functions
\* String.prototype.startsWith
StartsWith(s, p) == Len(s) >= Len(p) /\ SubSeq(s, 1, Len(p)) = p

\* (mutant) the router testing '/api' without the closing slash
RouteNoSlash(req) ==
  IF StartsWith(req.url.pathname, <<"/", "api">>) THEN "networkFirst" ELSE "cacheFirst"
\* lines 48-57: the router
Route(req) ==
  IF StartsWith(req.url.pathname, ApiPrefix) THEN "networkFirst" ELSE "cacheFirst"

\* ---- CacheStorage: a sequence of [name, entries] in creation order;
\* entries maps a URL to the stored request method and response.
CacheNames(cs) == { cs[i].name : i \in 1..Len(cs) }
CacheIndex(cs, name) == CHOOSE i \in 1..Len(cs) : cs[i].name = name
HasCache(cs, name) == name \in CacheNames(cs)
EntriesOf(cs, name) == cs[CacheIndex(cs, name)].entries
Entry(m, r) == [method |-> m, resp |-> r]
EmptyEntries == [u \in {} |-> Entry("GET", Undefined)]

\* caches.keys()
CachesKeys(cs) == [i \in 1..Len(cs) |-> cs[i].name]
\* caches.open(name): creates the cache when there is none of that name
CachesOpen(cs, name) ==
  IF HasCache(cs, name) THEN cs
  ELSE Append(cs, [name |-> name, entries |-> EmptyEntries])
\* caches.delete(name)
CachesDelete(cs, name) == SelectSeq(cs, LAMBDA c : c.name # name)
\* caches.match(request): the first cache, in creation order, holding the
\* URL; only GET requests match
CachesMatch(cs, req) ==
  LET holders == { i \in 1..Len(cs) : req.url \in DOMAIN cs[i].entries }
  IN  IF req.method # "GET" \/ holders = {} THEN Undefined
      ELSE LET first == CHOOSE i \in holders : \A j \in holders : i <= j
           IN  cs[first].entries[req.url].resp
\* the batch write of one entry into the cache `name`
StoreEntry(cs, name, url, e) ==
  [i \in 1..Len(cs) |->
     IF cs[i].name = name
     THEN [cs[i] EXCEPT !.entries =
             [u \in DOMAIN cs[i].entries \cup {url} |->
                IF u = url THEN e ELSE cs[i].entries[u]]]
     ELSE cs[i]]


\* ---- install (lines 16-25)
\* what the network can answer to a fetch made by cache.addAll
ManifestAnswers == { Net(200, "b1"), Net(204, ""), Net(404, "missing"), NetError }
\* the answers to the whole manifest: all 200, or one URL answered otherwise
\* (any URL can fail; the 204 is tried on manifest.json)
AllOk == [i \in DOMAIN STATIC_CACHE_URLS |-> Net(200, "b1")]
ManifestOutcomes ==
  { [AllOk EXCEPT ![x[1]] = x[2]] :
      x \in { y \in (DOMAIN STATIC_CACHE_URLS) \X ManifestAnswers :
                y[2] = Net(204, "") => STATIC_CACHE_URLS[y[1]] = ManifestJsonUrl } }
\* cache.addAll rejects on a network error, on a status outside 200..299
\* and on 206
AddAllAccepts(r) ==
  r.kind = "network" /\ r.status >= 200 /\ r.status <= 299 /\ r.status # 206
\* (mutant) an addAll that stores each accepted answer as it arrives
AddAllPartial(cs, name, o) ==
  LET urls == { STATIC_CACHE_URLS[i] : i \in { j \in DOMAIN o : AddAllAccepts(o[j]) } }
      idx(u) == CHOOSE i \in DOMAIN o : STATIC_CACHE_URLS[i] = u
  IN  [i \in 1..Len(cs) |->
         IF cs[i].name = name
         THEN [cs[i] EXCEPT !.entries =
                 [u \in DOMAIN cs[i].entries \cup urls |->
                    IF u \in urls THEN Entry("GET", o[idx(u)])
                    ELSE cs[i].entries[u]]]
         ELSE cs[i]]
\* line 21: cache.addAll(STATIC_CACHE_URLS) stores every answer in one batch,
\* or nothing when one of them is rejected
AddAll(cs, name, o) ==
  LET urls == { STATIC_CACHE_URLS[i] : i \in DOMAIN o }
      idx(u) == CHOOSE i \in DOMAIN o : STATIC_CACHE_URLS[i] = u
  IN  IF \A i \in DOMAIN o : AddAllAccepts(o[i])
      THEN [i \in 1..Len(cs) |->
              IF cs[i].name = name
              THEN [cs[i] EXCEPT !.entries =
                      [u \in DOMAIN cs[i].entries \cup urls |->
                         IF u \in urls THEN Entry("GET", o[idx(u)])
                         ELSE cs[i].entries[u]]]
              ELSE cs[i]]
      ELSE cs
AddAllResolves(o) == \A i \in DOMAIN o : AddAllAccepts(o[i])

\* ---- activate (lines 28-44)
\* (mutant) the filter with the full current name taken for the prefix
IsStaleWrongPrefix(cacheName) == StartsWith(cacheName, CACHE_NAME) /\ cacheName # CACHE_NAME
\* (mutant) the filter with the prefix missing its closing dash
IsStaleNoDash(cacheName) ==
  StartsWith(cacheName, <<"habit", "-", "tracker">>) /\ cacheName # CACHE_NAME
\* line 35: the filter of the caches to delete
IsStale(cacheName) == StartsWith(cacheName, TrackerPrefix) /\ cacheName # CACHE_NAME

\* ---- the strategies' decisions
\* (mutant) cacheFirst storing the answer to a GET whatever its status
CfShouldStoreAnyGet(net, req) == req.method = "GET"
\* line 73 (fetch resolves to a Response, so `networkResponse &&` holds)
CfShouldStore(net, req) == net.status = 200 /\ req.method = "GET"
\* (mutant) networkFirst writing through whatever the status
NfShouldStoreAny(net, req) == net.kind = "network"
\* line 104
NfShouldStore(net, req) == net.status = 200
\* lines 77 and 107: cache.put(request, responseToCache) is not awaited; it
\* is queued, and the host rejects it at once for a request that is not GET
Put(name, req, resp) == [cache |-> name, url |-> req.url, entry |-> Entry(req.method, resp)]
CachePut(pend, name, req, resp) ==
  IF req.method = "GET" THEN pend \cup { Put(name, req, resp) } ELSE pend

\* ---- push and notificationclick (lines 153-206)
\* URLs as the strings the handlers compare: the text of a URL, in pieces
Origin == "https://self"
\* line 162: './index.html'
RelShellString == <<".", "/", "index.html">>
\* the same document, as a window client reports it in client.url
AbsShellString == <<Origin, "/", "index.html">>
AbsOtherString == <<Origin, "/", "stats.html">>
NoString == <<>>
\* the host's URL parser, with the worker's location as base
Resolve(str) == IF str # NoString /\ str[1] = "." THEN <<Origin>> \o Tail(str) ELSE str

\* event.data of a push event: absent, or a text that is or is not JSON;
\* a JSON text is null or an object, whose absent members are empty here
Payload(present, wellFormed, isObject, title, body, url) ==
  [present |-> present, wellFormed |-> wellFormed, isObject |-> isObject,
   title |-> title, body |-> body, url |-> url]
NoData == Payload(FALSE, FALSE, FALSE, "", "", NoString)
Garbage == Payload(TRUE, FALSE, FALSE, "", "", NoString)
JsonNull == Payload(TRUE, TRUE, FALSE, "", "", NoString)
JsonObject(title, body, url) == Payload(TRUE, TRUE, TRUE, title, body, url)
Payloads ==
  { NoData, Garbage, JsonNull,
    JsonObject("", "", NoString),
    JsonObject("", "drink water", RelShellString),
    JsonObject("habits", "drink water", AbsShellString),
    JsonObject("habits", "", AbsOtherString) }

\* a || b on texts and on URL strings
OrText(a, b) == IF a = "" THEN b ELSE a
OrUrl(a, b) == IF a = NoString THEN b ELSE a
\* line 172 and line 158 (Chinese texts in the source)
DefaultTitle == "habit check-in reminder"
DefaultBody == "time to check in"

\* a notification: its title, its options.body and its options.data.url;
\* id is the number of the push event that asked for it
Notification(id, title, body, url) == [id |-> id, title |-> title, body |-> body, url |-> url]
NoNotification == Notification(0, "", "", NoString)

\* (mutant) the push listener without its try / catch
PushHandleNoCatch(payload) ==
  IF ~payload.present THEN [outcome |-> "returned", note |-> NoNotification]
  ELSE IF ~payload.wellFormed \/ ~payload.isObject
    THEN [outcome |-> "threw", note |-> NoNotification]
  ELSE [outcome |-> "show",
        note |-> Notification(0, OrText(payload.title, DefaultTitle),
                              OrText(payload.body, DefaultBody),
                              OrUrl(payload.url, RelShellString))]
\* lines 154-182: the push listener up to the call of showNotification
PushHandle(payload) ==
  IF ~payload.present THEN [outcome |-> "returned", note |-> NoNotification]   \* line 154
  ELSE IF ~payload.wellFormed                       \* line 157: json() throws
    THEN [outcome |-> "caught", note |-> NoNotification]
  ELSE IF ~payload.isObject                         \* line 159: null.body throws
    THEN [outcome |-> "caught", note |-> NoNotification]
  ELSE [outcome |-> "show",
        note |-> Notification(0, OrText(payload.title, DefaultTitle),
                              OrText(payload.body, DefaultBody),
                              OrUrl(payload.url, RelShellString))]
NoPush == [id |-> 0, payload |-> NoData, outcome |-> "none"]

\* the notificationclick handler: the notification clicked, urlToOpen, the
\* list matchAll gave, the clients it focused and the URLs it opened
Click(pc, id, target, clients, focused, opened) ==
  [pc |-> pc, id |-> id, target |-> target, clients |-> clients,
   focused |-> focused, opened |-> opened]
NoClick == Click("idle", 0, NoString, <<>>, {}, <<>>)
\* lines 195-204: the callback on the list of window clients
AfterMatchAll(c, clientList) ==
  LET same == { i \in DOMAIN clientList : clientList[i] = c.target }
  IN  IF same # {}
      THEN [c EXCEPT !.pc = "done", !.clients = clientList,
                     !.focused = { CHOOSE i \in same : \A j \in same : i <= j }]
      ELSE [c EXCEPT !.pc = "done", !.clients = clientList,
                     !.opened = << Resolve(c.target) >>]

VARIABLES
  caches,    \* the origin's CacheStorage
  sw,        \* the worker of version CACHE_VERSION: its lifecycle position
  handlers,  \* the bag of the fetch handlers in flight
  pending,   \* the cache.put operations issued and not yet settled
  started,   \* number of events dispatched to the workers so far
  notifications, \* the notifications on display
  showing,   \* the showNotification calls not yet settled
  windows,   \* the window clients of the origin: the URL each one shows
  push,      \* the last push event and how its handler ended
  click      \* the notificationclick handler: its position and what it did
cachevars == <<caches, sw, handlers, pending>>
uivars == <<notifications, showing, windows, push, click>>
vars == <<caches, sw, handlers, pending, started, notifications, showing, windows, push, click>>

\* One activation of cacheFirst or networkFirst: pc is the await it stands
\* at ("done" once settled), ver the version of the worker running it, hit
\* what caches.match(request) found, net what fetch(request) gave, outcome
\* and resp how the returned promise settled; prior is what the preceding
\* identical request got from the network when this one repeats it.
Handler(pc, ver, req, route, hit, net, openFailed, prior, outcome, resp) ==
  [pc |-> pc, ver |-> ver, req |-> req, route |-> route, hit |-> hit, net |-> net,
   openFailed |-> openFailed, prior |-> prior, outcome |-> outcome, resp |-> resp]
InFlight == BagToSet(handlers)
\* a settled handler is handed to the page before anything else happens
NoneDone == \A h \in InFlight : h.pc # "done"

\* the handler's promise settles: respondWith gets `resp`, or the rejection
Done(h, outcome, resp) == [h EXCEPT !.pc = "done", !.outcome = outcome, !.resp = resp]

\* (mutant) the catch block answering what its comment says, a 404
CfCatch404(h) ==
  IF h.req.accept = "none" THEN Done(h, "rejected", Undefined)
  ELSE IF h.req.accept = "html" THEN [h EXCEPT !.pc = "cf_shell"]
  ELSE Done(h, "resolved", Resp("synthetic", 404, "Network error happened", "text/plain"))
\* (mutant) the catch block without the branch of lines 84-87
CfCatchNoShell(h) ==
  IF h.req.accept = "none" THEN Done(h, "rejected", Undefined)
  ELSE Done(h, "resolved", NetworkError408)
\* lines 81-94: the catch block of cacheFirst
CfCatch(h) ==
  IF h.req.accept = "none" THEN Done(h, "rejected", Undefined)   \* null.includes throws
  ELSE IF h.req.accept = "html" THEN [h EXCEPT !.pc = "cf_shell"]
  ELSE Done(h, "resolved", NetworkError408)
\* (mutant) the hit is noted but the early return is missing
AfterCfMatchNoReturn(h, found) == [h EXCEPT !.hit = found, !.pc = "cf_fetch"]
\* lines 63-66
AfterCfMatch(h, found) ==
  IF found # Undefined THEN Done([h EXCEPT !.hit = found], "resolved", found)
  ELSE [h EXCEPT !.pc = "cf_fetch"]
\* lines 70-80, up to the await of caches.open
AfterCfFetch(h, r) ==
  IF r = NetError THEN CfCatch([h EXCEPT !.net = r])
  ELSE IF CfShouldStore(r, h.req) THEN [h EXCEPT !.net = r, !.pc = "cf_open"]
  ELSE Done([h EXCEPT !.net = r], "resolved", r)
\* lines 76-80
AfterCfOpen(h, ok) ==
  IF ok THEN Done(h, "resolved", h.net) ELSE CfCatch([h EXCEPT !.openFailed = TRUE])
\* (mutant) networkFirst writing its offline answer through like a live one
AfterNfFetchCacheOffline(h, r) ==
  IF r = NetError THEN [h EXCEPT !.net = OfflineResponse, !.pc = "nf_open"]
  ELSE IF NfShouldStore(r, h.req) THEN [h EXCEPT !.net = r, !.pc = "nf_open"]
  ELSE Done([h EXCEPT !.net = r], "resolved", r)
\* lines 101-110, up to the await of caches.open
AfterNfFetch(h, r) ==
  IF r = NetError THEN [h EXCEPT !.net = r, !.pc = "nf_match"]
  ELSE IF NfShouldStore(r, h.req) THEN [h EXCEPT !.net = r, !.pc = "nf_open"]
  ELSE Done([h EXCEPT !.net = r], "resolved", r)
\* lines 106-110
AfterNfOpen(h, ok) ==
  IF ok THEN Done(h, "resolved", h.net)
  ELSE [h EXCEPT !.openFailed = TRUE, !.pc = "nf_match"]
\* (mutant) the API fallback that never looks at what the cache holds
AfterNfMatchOfflineOnly(h, found) == Done(h, "resolved", OfflineResponse)
\* (mutant) the API fallback answering with the static strategy's 408
AfterNfMatch408(h, found) ==
  IF found # Undefined THEN Done([h EXCEPT !.hit = found], "resolved", found)
  ELSE Done(h, "resolved", NetworkError408)
\* lines 115-124
AfterNfMatch(h, found) ==
  IF found # Undefined THEN Done([h EXCEPT !.hit = found], "resolved", found)
  ELSE Done(h, "resolved", OfflineResponse)

ManifestEntries(b) == [u \in { STATIC_CACHE_URLS[i] : i \in DOMAIN STATIC_CACHE_URLS } |-> Entry("GET", Net(200, b))]

\* The previous version is installed and active: its generation holds the
\* manifest; an unversioned cache of the origin, left by an earlier release,
\* is empty or holds an older app shell.
Init ==
  /\ \E legacy \in { EmptyEntries, [u \in {ShellUrl} |-> Entry("GET", Net(200, "b00"))] } :
       caches =
         << [name |-> OTHER_CACHE_NAME, entries |-> legacy],
            [name |-> OLD_CACHE_NAME, entries |-> ManifestEntries("b0")] >>
  /\ sw = [pc |-> "install", toDelete |-> {}, skipWaiting |-> FALSE,
           claimed |-> FALSE, failure |-> "none"]
  /\ handlers = EmptyBag
  /\ pending = {}
  /\ started = 0
  /\ notifications = {} /\ showing = {} /\ windows = <<>>
  /\ push = NoPush /\ click = NoClick

\* ---- lifecycle of the new worker
\* line 18: caches.open(CACHE_NAME)
InstallOpen ==
  /\ NoneDone
  /\ sw.pc = "install"
  /\ \E ok \in BOOLEAN :
       IF ok THEN /\ caches' = CachesOpen(caches, CACHE_NAME)
                  /\ sw' = [sw EXCEPT !.pc = "addAll"]
       ELSE /\ sw' = [sw EXCEPT !.pc = "redundant", !.failure = "open"]
            /\ UNCHANGED caches
  /\ UNCHANGED <<handlers, pending, started>>
  /\ UNCHANGED uivars

\* lines 19-23: cache.addAll(STATIC_CACHE_URLS) settles; when it resolved,
\* the next callback calls self.skipWaiting() and the install event's
\* promise resolves; when it rejected, that callback is skipped and the
\* install fails
InstallAddAll ==
  /\ NoneDone
  /\ sw.pc = "addAll"
  /\ \E o \in ManifestOutcomes :
       /\ caches' = AddAll(caches, CACHE_NAME, o)
       /\ sw' = IF AddAllResolves(o)
                THEN [sw EXCEPT !.pc = "installed", !.skipWaiting = TRUE]
                ELSE [sw EXCEPT !.pc = "redundant", !.failure = "addAll"]
  /\ UNCHANGED <<handlers, pending, started>>
  /\ UNCHANGED uivars

\* The host activates the installed worker (its skip-waiting flag is set):
\* the previous worker is terminated, with whatever handlers it still runs,
\* and the activate event is dispatched.
HostActivate ==
  /\ NoneDone
  /\ sw.pc = "installed" /\ sw.skipWaiting
  /\ sw' = [sw EXCEPT !.pc = "activate"]
  /\ handlers' = [h \in { x \in InFlight : x.ver # OLD_VERSION } |-> handlers[h]]
  /\ UNCHANGED <<caches, pending, started>>
  /\ UNCHANGED uivars

\* lines 30-36: caches.keys() and the filter
ActivateKeys ==
  /\ NoneDone
  /\ sw.pc = "activate"
  /\ sw' = [sw EXCEPT !.pc = "deleting",
                      !.toDelete = { CachesKeys(caches)[i] : i \in { j \in 1..Len(caches) : IsStale(CachesKeys(caches)[j]) } }]
  /\ UNCHANGED <<caches, handlers, pending, started>>
  /\ UNCHANGED uivars

\* line 38: one caches.delete(cacheName) completes; the operations that
\* still hold the deleted cache write to an object no longer in the storage
ActivateDelete ==
  /\ NoneDone
  /\ sw.pc = "deleting"
  /\ \E n \in sw.toDelete :
       /\ caches' = CachesDelete(caches, n)
       /\ pending' = { p \in pending : p.cache # n }
       /\ sw' = [sw EXCEPT !.toDelete = @ \ {n}]
  /\ UNCHANGED <<handlers, started>>
  /\ UNCHANGED uivars

\* (mutant) clients.claim() called without waiting for the deletions
ActivateClaimEarly ==
  /\ NoneDone
  /\ sw.pc = "deleting"
  /\ sw' = [sw EXCEPT !.pc = "activated", !.claimed = TRUE]
  /\ UNCHANGED <<caches, handlers, pending, started>>
  /\ UNCHANGED uivars
\* line 42: Promise.all resolved; self.clients.claim()
ActivateClaim ==
  /\ NoneDone
  /\ sw.pc = "deleting" /\ sw.toDelete = {}
  /\ sw' = [sw EXCEPT !.pc = "activated", !.claimed = TRUE]
  /\ UNCHANGED <<caches, handlers, pending, started>>
  /\ UNCHANGED uivars

\* ---- fetch events
\* the version of the worker that receives the pages' fetch events, if any
ActiveVersions ==
  IF sw.pc = "activated" THEN {CACHE_VERSION}
  ELSE IF sw.pc \in {"activate", "deleting"} THEN {}
  ELSE {OLD_VERSION}

\* the completed handler `l` was a first, successful cache-first fetch of req
FirstFetchOf(l, req) ==
  /\ l.pc = "done" /\ l.req = req /\ l.route = "cacheFirst" /\ req.method = "GET"
  /\ l.hit = Undefined /\ l.net.kind = "network" /\ l.net.status = 200
  /\ l.outcome = "resolved" /\ l.resp = l.net

\* handler h continues as h2
Settle(h, h2) == handlers' = (handlers (-) SetToBag({h})) (+) SetToBag({h2})

\* lines 47-58: the fetch listener hands the request to its strategy, which
\* runs up to its first await
Dispatch(v, req, prior) ==
  Handler(IF Route(req) = "networkFirst" THEN "nf_fetch" ELSE "cf_match",
          v, req, Route(req), Undefined, Undefined, FALSE, prior, "", Undefined)

\* a page's request reaches the active worker
FetchEvent ==
  /\ NoneDone
  /\ started < MaxEvents
  /\ \E v \in ActiveVersions, req \in Requests :
       handlers' = handlers (+) SetToBag({ Dispatch(v, req, Undefined) })
  /\ started' = started + 1
  /\ UNCHANGED <<caches, sw, pending>>
  /\ UNCHANGED uivars

\* the page receives the result of a handler
Respond ==
  /\ \E h \in InFlight :
       /\ h.pc = "done"
       /\ handlers' = handlers (-) SetToBag({h})
  /\ UNCHANGED <<caches, sw, pending, started>>
  /\ UNCHANGED uivars

\* the page receives the result of a handler and repeats the same request
\* at once; `prior` keeps what the first fetch returned when that was a
\* successful first cache-first fetch
Repeat ==
  /\ started < MaxEvents
  /\ \E h \in InFlight :
       /\ h.pc = "done"
       /\ h.ver \in ActiveVersions
       /\ Settle(h, Dispatch(h.ver, h.req,
                              IF FirstFetchOf(h, h.req) THEN h.net ELSE Undefined))
  /\ started' = started + 1
  /\ UNCHANGED <<caches, sw, pending>>
  /\ UNCHANGED uivars

\* line 63
CfMatch ==
  /\ NoneDone
  /\ \E h \in InFlight :
       /\ h.pc = "cf_match"
       /\ Settle(h, AfterCfMatch(h, CachesMatch(caches, h.req)))
  /\ UNCHANGED <<caches, sw, pending, started>>
  /\ UNCHANGED uivars

\* line 70
CfFetch ==
  /\ NoneDone
  /\ \E h \in InFlight, r \in NetResponses \cup {NetError} :
       /\ h.pc = "cf_fetch"
       /\ Settle(h, AfterCfFetch(h, r))
  /\ UNCHANGED <<caches, sw, pending, started>>
  /\ UNCHANGED uivars

\* lines 76-80
CfOpen ==
  /\ NoneDone
  /\ \E h \in InFlight, ok \in BOOLEAN :
       LET name == CacheNameOf(h.ver)
       IN  /\ h.pc = "cf_open"
           /\ Settle(h, AfterCfOpen(h, ok))
           /\ caches' = IF ok THEN CachesOpen(caches, name) ELSE caches
           /\ pending' = IF ok THEN CachePut(pending, name, h.req, h.net) ELSE pending
  /\ UNCHANGED <<sw, started>>
  /\ UNCHANGED uivars

\* line 86
CfShell ==
  /\ NoneDone
  /\ \E h \in InFlight :
       /\ h.pc = "cf_shell"
       /\ Settle(h, Done(h, "resolved", CachesMatch(caches, Req(ShellUrl, "GET", ""))))
  /\ UNCHANGED <<caches, sw, pending, started>>
  /\ UNCHANGED uivars

\* line 101
NfFetch ==
  /\ NoneDone
  /\ \E h \in InFlight, r \in NetResponses \cup {NetError} :
       /\ h.pc = "nf_fetch"
       /\ Settle(h, AfterNfFetch(h, r))
  /\ UNCHANGED <<caches, sw, pending, started>>
  /\ UNCHANGED uivars

\* lines 106-110
NfOpen ==
  /\ NoneDone
  /\ \E h \in InFlight, ok \in BOOLEAN :
       LET name == CacheNameOf(h.ver)
       IN  /\ h.pc = "nf_open"
           /\ Settle(h, AfterNfOpen(h, ok))
           /\ caches' = IF ok THEN CachesOpen(caches, name) ELSE caches
           /\ pending' = IF ok THEN CachePut(pending, name, h.req, h.net) ELSE pending
  /\ UNCHANGED <<sw, started>>
  /\ UNCHANGED uivars

\* line 115
NfMatch ==
  /\ NoneDone
  /\ \E h \in InFlight :
       /\ h.pc = "nf_match"
       /\ Settle(h, AfterNfMatch(h, CachesMatch(caches, h.req)))
  /\ UNCHANGED <<caches, sw, pending, started>>
  /\ UNCHANGED uivars

\* a queued cache.put completes and the entry becomes visible
PutCommit ==
  /\ NoneDone
  /\ \E p \in pending :
       /\ caches' = StoreEntry(caches, p.cache, p.url, p.entry)
       /\ pending' = pending \ {p}
  /\ UNCHANGED <<sw, handlers, started>>
  /\ UNCHANGED uivars

\* a queued cache.put is rejected by the host (quota); nobody awaits it
PutFail ==
  /\ NoneDone
  /\ \E p \in pending : pending' = pending \ {p}
  /\ UNCHANGED <<caches, sw, handlers, started>>
  /\ UNCHANGED uivars

Next ==
  \/ InstallOpen
  \/ InstallAddAll
  \/ HostActivate
  \/ ActivateKeys
  \/ ActivateDelete
  \/ ActivateClaim
  \/ FetchEvent
  \/ CfMatch
  \/ CfFetch
  \/ CfOpen
  \/ CfShell
  \/ NfFetch
  \/ NfOpen
  \/ NfMatch
  \/ PutCommit
  \/ PutFail
  \/ Respond
  \/ Repeat

Spec == Init /\ [][Next]_vars

\* ---- the worker, activated, receiving push and notificationclick events
\* the pages open when the run starts
WindowLists ==
  { <<>>, <<AbsShellString>>, <<AbsOtherString, AbsShellString>>,
    <<AbsShellString, AbsShellString>> }
NotifyInit ==
  /\ caches = << [name |-> CACHE_NAME, entries |-> ManifestEntries("b1")] >>
  /\ sw = [pc |-> "activated", toDelete |-> {}, skipWaiting |-> TRUE,
           claimed |-> TRUE, failure |-> "none"]
  /\ handlers = EmptyBag
  /\ pending = {}
  /\ started = 0
  /\ notifications = {} /\ showing = {}
  /\ windows \in WindowLists
  /\ push = NoPush /\ click = NoClick

\* lines 153-183: a push event is handled; the call of showNotification is
\* left to settle
PushEvent ==
  /\ started < MaxEvents
  /\ \E payload \in Payloads :
       LET r == PushHandle(payload)
       IN  /\ push' = [id |-> started + 1, payload |-> payload, outcome |-> r.outcome]
           /\ showing' = IF r.outcome = "show"
                         THEN showing \cup { [r.note EXCEPT !.id = started + 1] }
                         ELSE showing
  /\ started' = started + 1
  /\ UNCHANGED <<notifications, windows, click>>
  /\ UNCHANGED cachevars

\* lines 171-173: showNotification settles; it rejects when the user has
\* not granted the permission
ShowNotification ==
  /\ \E n \in showing, granted \in BOOLEAN :
       /\ showing' = showing \ {n}
       /\ notifications' = IF granted THEN notifications \cup {n} ELSE notifications
  /\ UNCHANGED <<started, windows, push, click>>
  /\ UNCHANGED cachevars

\* lines 187-189: the user clicks a notification on display; the handler
\* closes it and reads data.url, then asks for the window clients
NotificationClick ==
  /\ started < MaxEvents
  /\ click.pc # "matchAll"
  /\ \E n \in notifications :
       /\ notifications' = notifications \ {n}
       /\ click' = Click("matchAll", n.id, n.url, <<>>, {}, <<>>)
  /\ started' = started + 1
  /\ UNCHANGED <<showing, windows, push>>
  /\ UNCHANGED cachevars

\* lines 192-204: matchAll resolves with the window clients; the handler
\* focuses one or opens a window
ClickMatchAll ==
  /\ click.pc = "matchAll"
  /\ click' = AfterMatchAll(click, windows)
  /\ windows' = windows \o click'.opened
  /\ UNCHANGED <<started, notifications, showing, push>>
  /\ UNCHANGED cachevars

NotifyNext ==
  \/ PushEvent
  \/ ShowNotification
  \/ NotificationClick
  \/ ClickMatchAll

NotifySpec == NotifyInit /\ [][NotifyNext]_vars

\* ======================================================================
\* Properties
\* ======================================================================
IsApiPath(req) == StartsWith(req.url.pathname, ApiPrefix)
Settled == { h \in InFlight : h.pc = "done" }
\* the settled handlers of the worker of version CACHE_VERSION
SettledHere == { h \in Settled : h.ver = CACHE_VERSION }
\* the fetch of h was answered by the network / failed
NetAnswered(h) == h.net.kind = "network"
NetFailed(h) == h.net = NetError
Stored ==
  UNION { { [cache |-> caches[i].name, url |-> u, entry |-> caches[i].entries[u]] :
              u \in DOMAIN caches[i].entries } : i \in 1..Len(caches) }
ManifestUrls == { STATIC_CACHE_URLS[i] : i \in DOMAIN STATIC_CACHE_URLS }

\* C1: a request to a non-API path for which cacheFirst found a stored
\* response is answered with that stored response, and no network fetch was
\* made for it.
C1_CacheHitNoNetwork ==
  \A h \in Settled :
    (~IsApiPath(h.req) /\ h.hit # Undefined) =>
      (h.outcome = "resolved" /\ h.resp = h.hit /\ h.net = Undefined)
C1_Witness ==
  \E h \in Settled : ~IsApiPath(h.req) /\ h.hit # Undefined /\ h.req.url = LogoUrl

\* C2 (as claimed): a request to an API path whose network fetch succeeded
\* is answered with the live network response, whatever the cache holds.
C2_LiveResponseClaimed ==
  \A h \in SettledHere :
    (IsApiPath(h.req) /\ NetAnswered(h)) => h.resp = h.net

\* C3 (as claimed): every cache entry was stored from a status-200 response
\* to a GET request.
C3_Only200GetClaimed ==
  \A s \in Stored : s.entry.resp.status = 200 /\ s.entry.method = "GET"
\* C3 (amended): every cache entry was stored from a network response to a
\* GET request, with status 200, or, for a manifest URL in a generation of
\* the worker (written by the install step's addAll), with a status that
\* addAll accepts (200..299 except 206).
C3_OnlyOkGet ==
  \A s \in Stored :
    /\ s.entry.method = "GET"
    /\ s.entry.resp.kind = "network"
    /\ \/ s.entry.resp.status = 200
       \/ /\ StartsWith(s.cache, TrackerPrefix)
          /\ s.url \in ManifestUrls
          /\ AddAllAccepts(s.entry.resp)
C3_Witness ==
  /\ \E s \in Stored : s.entry.resp.status # 200
  /\ \E s \in Stored : s.url = ApiUrl
  /\ \E h \in Settled : IsApiPath(h.req) /\ h.req.method = "POST"
                        /\ NetAnswered(h) /\ h.net.status = 200 /\ h.resp = h.net

\* C4: once the activate handler's work is complete, exactly one cache
\* named CACHE_NAME exists and no other cache carries the prefix
\* 'habit-tracker-', whatever handlers and cache writes are in flight.
C4_GenerationExclusive ==
  sw.pc = "activated" =>
    /\ Cardinality({ i \in 1..Len(caches) : caches[i].name = CACHE_NAME }) = 1
    /\ \A n \in CacheNames(caches) : StartsWith(n, TrackerPrefix) => n = CACHE_NAME
C4_Witness ==
  /\ sw.pc = "activated"
  /\ pending # {}
  /\ \E h \in InFlight : h.pc \in {"cf_open", "nf_open"}

\* C5: when the fetch of a manifest URL fails during install, the install
\* fails as a whole: the current generation holds no manifest entry,
\* skipWaiting was not called, and the previous generation is still there,
\* complete, with the previous worker the active one.
C5_InstallAllOrNothing ==
  sw.failure = "addAll" =>
    /\ sw.pc = "redundant"
    /\ \A s \in Stored : s.cache = CACHE_NAME => s.url \notin ManifestUrls
    /\ ~sw.skipWaiting /\ ~sw.claimed
    /\ HasCache(caches, OLD_CACHE_NAME)
    /\ ManifestUrls \subseteq DOMAIN EntriesOf(caches, OLD_CACHE_NAME)
    /\ ActiveVersions = {OLD_VERSION}
C5_Witness ==
  /\ sw.failure = "addAll"
  /\ HasCache(caches, CACHE_NAME)
  /\ \E h \in Settled : h.ver = OLD_VERSION /\ h.hit # Undefined

\* C6 (as claimed): in both strategies a network failure always ends in a
\* response: the handler resolves, to a cached or a synthetic response.
C6_FailureAlwaysAnsweredClaimed ==
  \A h \in SettledHere :
    NetFailed(h) => (h.outcome = "resolved" /\ h.resp.kind \in {"network", "synthetic"})

\* C7 (as claimed): in both strategies, when the network fetch succeeded the
\* caller receives the live network response, also when opening the cache
\* or storing the entry fails.
C7_WriteFailureHarmlessClaimed ==
  \A h \in SettledHere :
    NetAnswered(h) => (h.outcome = "resolved" /\ h.resp = h.net /\ h.resp.kind = "network")

\* C8 (as claimed): a static GET request repeated right after its first,
\* successful (status 200) network fetch is served from the cache, with the
\* body the first fetch returned and without a network call.
C8_RepeatServedFromCacheClaimed ==
  \A h \in SettledHere :
    h.prior # Undefined =>
      (h.hit # Undefined /\ h.net = Undefined /\ h.resp.body = h.prior.body)

\* C9: a request to an API path whose network fetch failed and for which
\* the cache holds no entry is answered with the synthetic plain-text
\* offline response, status 200.
C9_ApiOfflinePlaceholder ==
  \A h \in Settled :
    (IsApiPath(h.req) /\ NetFailed(h) /\ h.hit = Undefined) =>
      /\ h.outcome = "resolved"
      /\ h.resp.kind = "synthetic"
      /\ h.resp.status = 200
      /\ h.resp.ctype = "text/plain"
C9_Witness ==
  \E h \in Settled : IsApiPath(h.req) /\ NetFailed(h) /\ h.hit = Undefined

C11_ShellFallback ==
  \A h \in Settled :
    (~IsApiPath(h.req) /\ h.hit = Undefined /\ NetFailed(h) /\ h.req.accept = "html") =>
      /\ h.outcome = "resolved"
      /\ h.resp # Undefined
      /\ h.resp.kind = "network"
      /\ \E s \in Stored : s.url = ShellUrl /\ s.entry.resp = h.resp
C11_Witness ==
  \E h \in SettledHere :
    /\ ~IsApiPath(h.req) /\ h.hit = Undefined /\ NetFailed(h) /\ h.req.accept = "html"
    /\ h.req.url = LogoUrl
    /\ h.resp = EntriesOf(caches, CACHE_NAME)[ShellUrl].resp

\* the handler records that a step has added
NewHandler(h) == CopiesIn(h, handlers') > CopiesIn(h, handlers)

\* C12: every fetch event starts exactly one strategy, networkFirst when
\* and only when the path of the request URL starts with '/api/' and
\* cacheFirst otherwise, and the dispatch itself changes no cache and
\* queues no cache write.
C12_RoutedOnce ==
  [][ started' # started =>
        /\ caches' = caches /\ pending' = pending
        /\ Cardinality({ h \in BagToSet(handlers') : NewHandler(h) }) = 1
        /\ \A h \in BagToSet(handlers') :
             NewHandler(h) =>
               /\ h.route \in {"networkFirst", "cacheFirst"}
               /\ h.route = "networkFirst" <=> IsApiPath(h.req)
               /\ h.pc = (IF IsApiPath(h.req) THEN "nf_fetch" ELSE "cf_match") ]_vars
C12_Witness ==
  /\ \E h \in InFlight : h.req.url = ApiUrl /\ h.route = "networkFirst" /\ h.pc = "nf_fetch"
  /\ \E h \in InFlight : h.req.url = ApiNoSlashUrl /\ h.route = "cacheFirst" /\ h.pc = "cf_match"

\* C13: skipWaiting is called, and the install phase completes, only once
\* every manifest URL is stored in the current generation; clients.claim is
\* called, and the activate phase completes, only once every deletion of a
\* stale generation has completed.
C13_LifecycleOrder ==
  /\ sw.skipWaiting =>
        /\ HasCache(caches, CACHE_NAME)
        /\ ManifestUrls \subseteq DOMAIN EntriesOf(caches, CACHE_NAME)
  /\ sw.pc \in {"installed", "activate", "deleting", "activated"} => sw.skipWaiting
  /\ sw.claimed =>
        /\ sw.toDelete = {}
        /\ \A n \in CacheNames(caches) : ~(StartsWith(n, TrackerPrefix) /\ n # CACHE_NAME)
  /\ sw.pc = "activated" => sw.claimed
C13_Witness ==
  /\ sw.skipWaiting /\ sw.claimed
  /\ ~HasCache(caches, OLD_CACHE_NAME)
  /\ HasCache(caches, OTHER_CACHE_NAME)
  /\ handlers # EmptyBag

\* C14: a push event without data, or with a payload that is not JSON,
\* ends inside the handler (returned, or the exception caught) and no
\* notification is shown or asked for on its account.
C14_BadPushSilent ==
  (push.outcome # "none" /\ (~push.payload.present \/ ~push.payload.wellFormed)) =>
    /\ push.outcome = (IF push.payload.present THEN "caught" ELSE "returned")
    /\ \A n \in showing \cup notifications : n.id # push.id
C14_Witness ==
  /\ push.payload = Garbage /\ push.outcome = "caught"
  /\ notifications # {}

\* the window clients that already show the document the click is for
ShowingTarget(c) == { i \in DOMAIN c.clients : c.clients[i] = Resolve(c.target) }
\* C15 (as claimed): on a notification click the notification is closed
\* first; then, when some open page already shows the target URL, exactly
\* one such page is focused and none is opened; when none does, one page is
\* opened at the target URL; never both.
C15_FocusOrOpenClaimed ==
  /\ click.pc \in {"matchAll", "done"} => \A n \in notifications : n.id # click.id
  /\ click.pc = "done" =>
       IF ShowingTarget(click) # {}
       THEN /\ Cardinality(click.focused) = 1
            /\ click.focused \subseteq ShowingTarget(click)
            /\ click.opened = <<>>
       ELSE /\ click.focused = {}
            /\ click.opened = << Resolve(click.target) >>

\* C16 (as claimed): a stored response that cacheFirst returns without
\* contacting the network is the entry of the request in the cache named
\* CACHE_NAME, never an entry of another cache.
C16_CurrentGenerationClaimed ==
  \A h \in SettledHere :
    (h.route = "cacheFirst" /\ h.hit # Undefined /\ h.net = Undefined) =>
      /\ HasCache(caches, CACHE_NAME)
      /\ h.req.url \in DOMAIN EntriesOf(caches, CACHE_NAME)
      /\ h.resp = EntriesOf(caches, CACHE_NAME)[h.req.url].resp

\* C17: a request to an API path whose network fetch failed, and for which
\* the cache holds an entry, is answered with that entry, a response
\* stored under the request's URL, and not with the synthetic offline
\* response.
C17_ApiCachedFallback ==
  \A h \in Settled :
    (IsApiPath(h.req) /\ NetFailed(h) /\ CachesMatch(caches, h.req) # Undefined) =>
      /\ h.outcome = "resolved"
      /\ h.resp = CachesMatch(caches, h.req)
      /\ h.resp # OfflineResponse /\ h.resp.kind = "network"
      /\ \E s \in Stored : s.url = h.req.url /\ s.entry.resp = h.resp
C17_Witness ==
  \E h \in SettledHere :
    /\ IsApiPath(h.req) /\ NetFailed(h) /\ h.req.method = "GET"
    /\ ApiUrl \in DOMAIN EntriesOf(caches, CACHE_NAME)
    /\ h.resp = EntriesOf(caches, CACHE_NAME)[ApiUrl].resp

\* the caches of a storage that activation has to leave alone: the current
\* generation and every cache whose name does not start with the prefix
Kept(cs) ==
  SelectSeq(cs, LAMBDA c : ~(StartsWith(c.name, TrackerPrefix) /\ c.name # CACHE_NAME))
\* C18: every step of the activate handler leaves the current generation
\* and the caches without the prefix 'habit-tracker-' as they are, in
\* existence and in entries; what it deletes, and what it sets out to
\* delete, carries the prefix and is not CACHE_NAME.
C18_ActivateFrame ==
  [][ (sw.pc \in {"activate", "deleting"} /\ sw' # sw) =>
        /\ Kept(caches') = Kept(caches)
        /\ \A n \in (CacheNames(caches) \ CacheNames(caches')) \cup sw'.toDelete :
             StartsWith(n, TrackerPrefix) /\ n # CACHE_NAME ]_vars
C18_Witness ==
  /\ sw.pc = "activated"
  /\ ~HasCache(caches, OLD_CACHE_NAME)
  /\ HasCache(caches, CACHE_NAME)
  /\ HasCache(caches, OTHER_CACHE_NAME)
  /\ ShellUrl \in DOMAIN EntriesOf(caches, OTHER_CACHE_NAME)

\* C19: in both strategies a handler whose network fetch was answered with
\* a status other than 200 settles at once with that very response: no
\* cache lookup replaces it, neither the shell nor the 408 response is
\* substituted, no cache is changed and no cache write is queued.
C19_Non200PassedThrough ==
  [][ \A h \in BagToSet(handlers') :
        (NewHandler(h) /\ h.pc = "done" /\ NetAnswered(h) /\ h.net.status # 200) =>
          /\ h.outcome = "resolved" /\ h.resp = h.net
          /\ h.hit = Undefined /\ ~h.openFailed
          /\ caches' = caches /\ pending' = pending ]_vars
C19_Witness ==
  /\ pending = {}
  /\ \E h \in SettledHere :
       /\ IsApiPath(h.req) /\ NetAnswered(h) /\ h.net.status = 404
       /\ h.resp = h.net
       /\ CachesMatch(caches, h.req) # Undefined

\* C20: no cache entry, and no cache write on its way, holds a synthetic
\* response (the 408 response or the offline placeholder), and no handler
\* has found one in a cache.
C20_NoSyntheticCached ==
  /\ \A s \in Stored : s.entry.resp.kind # "synthetic"
  /\ \A p \in pending : p.entry.resp.kind # "synthetic"
  /\ \A h \in InFlight : h.hit.kind # "synthetic"
C20_Witness ==
  \E h \in SettledHere :
    /\ h.resp.kind = "synthetic"
    /\ \E s \in Stored : s.cache = CACHE_NAME /\ s.url = h.req.url
====
